---- MODULE Spec2Model ----
(***************************************************************************)
(* Backtester and adaptive weight engine (src/core/backtester.py):         *)
(* the signal ledger (SignalHistory), the evolutionary weight optimizer    *)
(* (WeightOptimizer) and the scorer that reads its weights                 *)
(* (AdaptiveEntryScorer).                                                  *)
(*                                                                         *)
(* Number representation.  Component scores are integers.  A weight is an  *)
(* integer number of 1e-4 units (0.15 is 1500): _normalize rounds every    *)
(* weight to 4 decimals.  round(x, n) is Python's round-half-to-even on    *)
(* the exact quotient.  A fitness value is an exact rational num/den.      *)
(***************************************************************************)
EXTENDS Integers, Sequences, FiniteSets, TLC

VARIABLES
    records,          \* SignalHistory.records: mint -> SignalRecord
    historyFile,      \* HISTORY_FILE on disk
    current_weights,  \* WeightOptimizer.current_weights
    weightsFile,      \* WEIGHTS_FILE on disk
    opt,              \* the locals of an optimize() call in progress
    result,           \* what the last optimize() call returned
    scoreOut,         \* what the last score() call returned
    statsOut,         \* what the last get_stats() call returned
    corrOut,          \* what the last get_component_correlations() call returned
    tasks,            \* the bot's tasks: where each is in its ledger call
    lastOp,           \* the last call made on the engine, with its arguments
    lastWrite,        \* the last write_text call: which file, and whether it returned
    now,              \* the wall clock, as a tick count
    calls             \* number of calls made so far

vars == <<records, historyFile, current_weights, weightsFile, opt, result,
          scoreOut, statsOut, corrOut, tasks, lastOp, lastWrite, now, calls>>

-----------------------------------------------------------------------------
(* Bounds of the model *)

NumMints == 2
MaxCalls == 2
MaxGenerations == 1

Mints == 1..NumMints

-----------------------------------------------------------------------------
(* Arithmetic *)

WUnit == 10000

Max(a, b) == IF a >= b THEN a ELSE b

Min(a, b) == IF a <= b THEN a ELSE b

\* round(n / d) to the nearest integer, ties to even; d > 0
RoundDiv(n, d) ==
    LET q == n \div d
        r == n % d
    IN  IF 2 * r < d THEN q
        ELSE IF 2 * r > d THEN q + 1
        ELSE IF q % 2 = 0 THEN q ELSE q + 1

RECURSIVE SumOver(_, _)
SumOver(f, S) ==
    IF S = {} THEN 0
    ELSE LET k == CHOOSE x \in S : TRUE
         IN  f[k] + SumOver(f, S \ {k})

SumFn(f) == SumOver(f, DOMAIN f)

\* f itself, with every value computed once
Eager(f) == f @@ [x \in {} |-> 0]

-----------------------------------------------------------------------------
(* Components and weight vectors *)

Components ==
    {"narrative", "timing", "holders", "deployer", "momentum",
     "smart_money", "rug_safety", "bundles"}

\* a default vector whose weights sum to 1.05
EXTENDED_WEIGHTS_SumAboveOne ==
    [k \in Components |->
        CASE k = "narrative"   -> 1500
          [] k = "timing"      -> 1000
          [] k = "holders"     -> 1500
          [] k = "deployer"    -> 1000
          [] k = "momentum"    -> 1000
          [] k = "smart_money" -> 2500
          [] k = "rug_safety"  -> 1500
          [] k = "bundles"     -> 500]

EXTENDED_WEIGHTS ==
    [k \in Components |->
        CASE k = "narrative"   -> 1500
          [] k = "timing"      -> 1000
          [] k = "holders"     -> 1500
          [] k = "deployer"    -> 1000
          [] k = "momentum"    -> 1000
          [] k = "smart_money" -> 2000
          [] k = "rug_safety"  -> 1500
          [] k = "bundles"     -> 500]

\* list(EXTENDED_WEIGHTS.keys()), in the dict's order
ComponentList ==
    <<"narrative", "timing", "holders", "deployer", "momentum",
      "smart_money", "rug_safety", "bundles">>

-----------------------------------------------------------------------------
(* SignalRecord *)

Terminal == {"winner", "loser", "rug"}

\* the dataclass defaults of the eight score fields
ScoreDefault(k) == IF k = "smart_money" THEN 0 ELSE 5

\* the name of the dataclass field that holds the score of component k
ScoreField(k) == k \o "_score"

ScoreFields == {ScoreField(k) : k \in Components}

\* the fields of the dataclass that are not scores
PlainFields ==
    {"mint", "name", "symbol", "timestamp", "entry_score", "alert_sent",
     "outcome", "peak_x", "final_x", "peak_mcap", "time_to_peak_hours",
     "source", "narrative_category"}

FieldNames == PlainFields \cup ScoreFields

\* timestamp: str = "", the value __post_init__ replaces by the clock
NoTimestamp == -1

\* the dataclass defaults of the other fields (mint has none)
FieldDefault(f) ==
    CASE f \in {"name", "symbol", "source", "narrative_category"} -> ""
      [] f = "timestamp" -> NoTimestamp
      [] f = "entry_score" -> 5
      [] f = "alert_sent" -> FALSE
      [] f = "outcome" -> "pending"
      [] f \in {"peak_x", "final_x"} -> 1
      [] f \in {"peak_mcap", "time_to_peak_hours"} -> 0

\* the constructor accepts the keyword arguments kw: mint is given and no
\* keyword is unknown (a TypeError otherwise)
Accepts(kw) == "mint" \in DOMAIN kw /\ DOMAIN kw \subseteq FieldNames

\* SignalRecord(**kw) at clock t, for kw the constructor accepts: a field
\* takes its keyword or its default, and __post_init__ stamps a record that
\* has no timestamp.  The eight score fields are kept as one map.
SignalRecord(kw, t) ==
    LET get(f) == IF f \in DOMAIN kw THEN kw[f] ELSE FieldDefault(f)
    IN  [scores      |-> [k \in Components |->
                            IF ScoreField(k) \in DOMAIN kw THEN kw[ScoreField(k)]
                            ELSE ScoreDefault(k)],
         mint        |-> kw.mint,
         name        |-> get("name"),
         symbol      |-> get("symbol"),
         timestamp   |-> IF get("timestamp") = NoTimestamp THEN t
                         ELSE get("timestamp"),
         entry_score |-> get("entry_score"),
         alert_sent  |-> get("alert_sent"),
         outcome     |-> get("outcome"),
         peak_x      |-> get("peak_x"),
         final_x     |-> get("final_x"),
         peak_mcap   |-> get("peak_mcap"),
         time_to_peak_hours |-> get("time_to_peak_hours"),
         source      |-> get("source"),
         narrative_category |-> get("narrative_category")]

get_component_scores(r) == r.scores

EmptyLedger == [m \in {} |-> 0]

get_completed_records(recs) ==
    {m \in DOMAIN recs : recs[m].outcome # "pending"}

get_winners(recs) == {m \in DOMAIN recs : recs[m].outcome = "winner"}

get_losers(recs) == {m \in DOMAIN recs : recs[m].outcome \in {"loser", "rug"}}

-----------------------------------------------------------------------------
(* Files.  A file is missing, unreadable as JSON (corrupt), or holds the   *)
(* object last written in full.  write_text opens the file for writing,    *)
(* which truncates it, and then writes the text: a write that raises       *)
(* leaves the previous file (the open failed) or a truncated one.          *)

MissingFile == [kind |-> "missing", data |-> EmptyLedger]

CorruptFile == [kind |-> "corrupt", data |-> EmptyLedger]

OkFile(d) == [kind |-> "ok", data |-> d]

\* what write_text(text) can do to a file: write it in full and return, or
\* raise and leave the previous file or a truncated one
WriteOutcomes(file, d) ==
    { [file |-> OkFile(d), ok |-> TRUE],
      [file |-> file, ok |-> FALSE],
      [file |-> CorruptFile, ok |-> FALSE] }

\* what is left of a file when the process is killed inside
\* write_text(text): the previous file (killed before the open), a truncated
\* one (after the open, before the last byte reached the disk), or the text
KilledWrite(file, d) == {file, CorruptFile, OkFile(d)}

\* a to_dict that leaves out alert_sent
to_dict_OmitsAlert(r) ==
    [f \in FieldNames \ {"alert_sent"} |->
        IF f \in ScoreFields
        THEN r.scores[CHOOSE k \in Components : ScoreField(k) = f]
        ELSE r[f]]

\* SignalRecord.to_dict: asdict(self), one key per dataclass field.  The
\* ledger file is the json.dumps of these dicts; json.loads gives back the
\* same strings, numbers and booleans.
to_dict(r) ==
    [f \in FieldNames |->
        IF f \in ScoreFields
        THEN r.scores[CHOOSE k \in Components : ScoreField(k) = f]
        ELSE r[f]]

\* a snapshot that leaves out the pending records
SnapshotCompletedOnly(recs) ==
    [m \in get_completed_records(recs) |-> to_dict(recs[m])]

\* SignalHistory._save: the snapshot it writes
Snapshot(recs) == [m \in DOMAIN recs |-> to_dict(recs[m])]

\* SignalHistory._load: the entries of the file are constructed one by one,
\* in the order of the file (here: of their ids), into self.records; the
\* first entry the constructor rejects raises, the except clause prints the
\* error, and the entries stored before it stay.  t is the clock.
_load(file, t) ==
    IF file.kind = "ok"
    THEN LET raw == file.data
             read == {m \in DOMAIN raw :
                        \A j \in DOMAIN raw : j <= m => Accepts(raw[j])}
         IN  [m \in read |-> SignalRecord(raw[m], t)]
    ELSE EmptyLedger

-----------------------------------------------------------------------------
(* WeightOptimizer: pure parts *)

\* _normalize that returns a vector of sum 0 as it is
_normalize_KeepsZero(weights) ==
    LET total == SumFn(weights)
    IN  IF total = 0
        THEN weights
        ELSE [k \in DOMAIN weights |-> RoundDiv(weights[k] * WUnit, total)]

\* WeightOptimizer._normalize.  1.0 / len(weights) is 0.125 for the eight
\* components; v / total is rounded to 4 decimals.
_normalize(weights) ==
    LET total == SumFn(weights)
    IN  IF total = 0
        THEN [k \in DOMAIN weights |-> WUnit \div Cardinality(DOMAIN weights)]
        ELSE [k \in DOMAIN weights |-> RoundDiv(weights[k] * WUnit, total)]

\* One draw of _mutate: the targets (random.sample of 1 to 3 components)
\* and the factor of each (random.uniform(0.5, 1.5), in tenths).  The model
\* takes two draws: one target raised, and two targets moved apart.
Mutations ==
    { ("narrative" :> 15),
      ("smart_money" :> 5) @@ ("bundles" :> 15) }

\* _mutate without the floor of 0.01 under a mutated weight
_mutate_NoFloor(weights, mu) ==
    LET new_weights ==
            [k \in DOMAIN weights |->
                IF k \in DOMAIN mu
                THEN weights[k] * mu[k]
                ELSE weights[k] * 10]
    IN  _normalize(new_weights)

\* WeightOptimizer._mutate with the draw mu.  The vector before
\* normalisation is in units of 1e-5: an untouched weight w is w * 10, a
\* target is max(0.01, w * factor).
_mutate(weights, mu) ==
    LET new_weights ==
            [k \in DOMAIN weights |->
                IF k \in DOMAIN mu
                THEN Max(WUnit \div 10, weights[k] * mu[k])
                ELSE weights[k] * 10]
    IN  _normalize(new_weights)

\* the weighted score of one record, in 1e-4 units:
\* sum(components.get(k, 5.0) * weights.get(k, 0) for k in weights)
WeightedScore(weights, r) ==
    LET c == get_component_scores(r)
    IN  SumFn([k \in DOMAIN weights |->
                 (IF k \in DOMAIN c THEN c[k] ELSE 5) * weights[k]])

\* a fitness value: (num / den) * 1e-4, den > 0; or float("-inf")
Fit(n, d) == [inf |-> FALSE, num |-> n, den |-> d]

NegInf == [inf |-> TRUE, num |-> 0, den |-> 1]

\* a > b on fitness values
FitGT(a, b) ==
    IF a.inf THEN FALSE
    ELSE IF b.inf THEN TRUE
    ELSE IF a.den = b.den THEN a.num > b.num
    ELSE a.num * b.den > b.num * a.den

FitGE(a, b) == ~FitGT(b, a)

\* max(1, len(all_scores) // 3)
TopN(n) == Max(1, n \div 3)

\* _evaluate_fitness without the penalty for high-scored rugs
_evaluate_fitness_NoRugPenalty(weights, recs) ==
    LET W  == get_winners(recs)
        L  == get_losers(recs)
        s  == Eager([m \in DOMAIN recs |-> WeightedScore(weights, recs[m])])
        nW == Cardinality(W)
        nL == Cardinality(L)
        top_n == TopN(nW + nL)
        rank(w) == Cardinality({x \in W : s[x] > s[w] \/ (s[x] = s[w] /\ x < w)})
                   + Cardinality({l \in L : s[l] > s[w]})
        winsTop == Cardinality({w \in W : rank(w) < top_n})
    IN  IF W = {} \/ L = {}
        THEN Fit(0, 1)
        ELSE Fit(4 * top_n * (SumOver(s, W) * nL - SumOver(s, L) * nW)
                    + 6 * WUnit * nW * nL * winsTop,
                 2 * nW * nL * top_n)

\* WeightOptimizer._evaluate_fitness over the records recs (mint -> record).
\* all_scores lists the winners before the losers and the sort is stable, so
\* on equal scores a winner ranks before a loser.
_evaluate_fitness(weights, recs) ==
    LET W  == get_winners(recs)
        L  == get_losers(recs)
        s  == Eager([m \in DOMAIN recs |-> WeightedScore(weights, recs[m])])
        nW == Cardinality(W)
        nL == Cardinality(L)
        SW == SumOver(s, W)
        SL == SumOver(s, L)
        top_n == TopN(nW + nL)
        rank(w) == Cardinality({x \in W : s[x] > s[w] \/ (s[x] = s[w] /\ x < w)})
                   + Cardinality({l \in L : s[l] > s[w]})
        winsTop == Cardinality({w \in W : rank(w) < top_n})
        rugs == Cardinality({m \in DOMAIN recs :
                                recs[m].outcome = "rug" /\ s[m] > 6 * WUnit})
    IN  IF W = {} \/ L = {}
        THEN Fit(0, 1)
        ELSE Fit(4 * top_n * (SW * nL - SL * nW)
                    + 6 * WUnit * nW * nL * winsTop
                    - rugs * WUnit * nW * nL * top_n,
                 2 * nW * nL * top_n)

\* scored.sort(key=fitness, reverse=True): a stable sort, best first
SortScored(scored) ==
    LET n == Len(scored)
        pos(i) == 1 + Cardinality({j \in 1..n :
                        FitGT(scored[j].fitness, scored[i].fitness)
                        \/ (j < i /\ ~FitGT(scored[i].fitness, scored[j].fitness))})
    IN  Eager([p \in 1..n |-> scored[CHOOSE i \in 1..n : pos(i) = p]])

\* seq[:n]
Take(seq, n) == SubSeq(seq, 1, Min(n, Len(seq)))

\* round(fitness, 4), in 1e-4 units
Round4(f) ==
    IF f.inf THEN [inf |-> TRUE, val |-> 0]
    ELSE [inf |-> FALSE, val |-> RoundDiv(f.num, f.den)]

\* WeightOptimizer._load_weights
_load_weights(file) ==
    IF file.kind = "ok" /\ DOMAIN file.data.weights # {}
    THEN file.data.weights
    ELSE EXTENDED_WEIGHTS

get_weights == current_weights

-----------------------------------------------------------------------------
(* AdaptiveEntryScorer: pure parts *)

\* AdaptiveEntryScorer._verdict, on the score in 1e-3 units
_verdict(score) ==
    IF score >= 8000 THEN "STRONG ENTRY"
    ELSE IF score >= 6500 THEN "VIABLE ENTRY"
    ELSE IF score >= 5000 THEN "WEAK ENTRY"
    ELSE IF score >= 3500 THEN "HIGH RISK ENTRY"
    ELSE "AVOID"

\* a clamp without the floor
ClampNoFloor(total) == Min(10000, total)

\* max(1.0, min(10.0, total)), in 1e-3 units
Clamp(total) == Max(1000, Min(10000, total))

\* a score that takes 0 for a component the caller left out and sums the
\* unrounded products
ScoreResult_DefaultZero(components, weights, wfile) ==
    LET weighted_scores ==
            [comp \in DOMAIN weights |->
                LET raw_score == IF comp \in DOMAIN components
                                 THEN components[comp] ELSE 0
                IN  [raw      |-> raw_score,
                     weight   |-> weights[comp],
                     weighted |-> RoundDiv(raw_score * weights[comp], 10)]]
        total == SumFn([c \in DOMAIN weights |->
                           weighted_scores[c].raw * weighted_scores[c].weight])
        final == Clamp(RoundDiv(total, 10))
    IN  [final_score    |-> RoundDiv(final, 10),
         verdict        |-> _verdict(final),
         breakdown      |-> weighted_scores,
         weights_source |-> IF wfile.kind # "missing" THEN "optimized"
                            ELSE "default"]

\* What AdaptiveEntryScorer.score returns, given the weights it read and the
\* weight file it saw.  "weighted" is round(raw * weight, 3), in 1e-3 units;
\* final_score is round(final, 2), in 1e-2 units.
ScoreResult(components, weights, wfile) ==
    LET weighted_scores ==
            [comp \in DOMAIN weights |->
                LET raw_score == IF comp \in DOMAIN components
                                 THEN components[comp] ELSE 5
                IN  [raw      |-> raw_score,
                     weight   |-> weights[comp],
                     weighted |-> RoundDiv(raw_score * weights[comp], 10)]]
        total == SumFn([c \in DOMAIN weights |-> weighted_scores[c].weighted])
        final == Clamp(total)
    IN  [final_score    |-> RoundDiv(final, 10),
         verdict        |-> _verdict(final),
         breakdown      |-> weighted_scores,
         weights_source |-> IF wfile.kind # "missing" THEN "optimized"
                            ELSE "default"]

-----------------------------------------------------------------------------
(* Inputs of the model *)

AllScores(v) == [k \in Components |-> v]

\* the keyword arguments of the bot's record_signal call, for the scorer's
\* component map: components.get(k, 5), and components.get("smart_money", 0)
Kw(components) ==
    [f \in ScoreFields |->
        LET k == CHOOSE c \in Components : ScoreField(c) = f
        IN  IF k \in DOMAIN components THEN components[k] ELSE ScoreDefault(k)]
    @@ [name |-> "token", symbol |-> "TKN", entry_score |-> 7,
        alert_sent |-> TRUE, source |-> "birdeye", narrative_category |-> "ai"]

\* the keyword arguments record_signal is called with: all eight scores
\* high, all eight low, or a component map with narrative only
KwInputs ==
    {Kw(AllScores(9)), Kw(AllScores(2)), Kw([k \in {"narrative"} |-> 9])}

\* SignalRecord(mint=mint, **kwargs)
WithMint(mint, kw) == [f \in {"mint"} |-> mint] @@ kw

Outcome(o, p, f, c) == [outcome |-> o, peak_x |-> p, final_x |-> f, peak_mcap |-> c]

\* the fields of a TrackedToken the tracker reads when it archives it
Token(p, x, st, c) == [peak_x |-> p, current_x |-> x, status |-> st, peak_mcap |-> c]

\* TrackedToken.classify_outcome; x < 0.5 is 2 * x < 1
classify_outcome(t) ==
    IF t.peak_x >= 5 THEN "success"
    ELSE IF 2 * t.current_x < 1 /\ t.status = "closed" THEN "rugged"
    ELSE IF t.peak_x >= 2 /\ t.peak_x < 5 THEN "moderate"
    ELSE IF t.peak_x < 2 THEN "no_pump"
    ELSE "active"

\* a mapping without the entry for moderate
backtest_outcome_NoModerate(outcome) ==
    CASE outcome = "success"  -> "winner"
      [] outcome = "rugged"   -> "rug"
      [] outcome = "no_pump"  -> "loser"
      [] OTHER                -> "unknown"

\* the tracker's mapping to ledger outcomes: {...}.get(outcome, "unknown")
backtest_outcome(outcome) ==
    CASE outcome = "success"  -> "winner"
      [] outcome = "moderate" -> "winner"
      [] outcome = "rugged"   -> "rug"
      [] outcome = "no_pump"  -> "loser"
      [] OTHER                -> "unknown"

\* the arguments of the tracker's update_outcome call for the token t
TrackerReport(t) ==
    Outcome(backtest_outcome(classify_outcome(t)), t.peak_x, t.current_x, t.peak_mcap)

\* the tokens the tracker archives: a 6X, one that never moved, a closed one
\* that collapsed, and a 3X that migrated
TokenInputs ==
    { Token(6, 3, "active", 900), Token(1, 0, "active", 120),
      Token(2, 0, "closed", 150), Token(3, 1, "migrated", 400) }

\* what the tracker reports: an outcome with its multipliers
OutcomeInputs == {TrackerReport(t) : t \in TokenInputs}

\* an update that also clears the record's alerted flag
SetOutcome_ClearsAlert(r, o) ==
    [r EXCEPT !.outcome = o.outcome, !.peak_x = o.peak_x,
              !.final_x = o.final_x, !.peak_mcap = o.peak_mcap,
              !.alert_sent = FALSE]

\* SignalHistory.update_outcome on one record: the four assignments
SetOutcome(r, o) ==
    [r EXCEPT !.outcome = o.outcome, !.peak_x = o.peak_x,
              !.final_x = o.final_x, !.peak_mcap = o.peak_mcap]

\* a record an earlier run of the program left in the ledger file
Stored(m, sc, o) == SetOutcome(SignalRecord(WithMint(m, Kw(sc)), 0), o)

NarrativeOnly(hi, lo) == [k \in Components |-> IF k = "narrative" THEN hi ELSE lo]

\* a ledger of ten completed records: five winners, three losers, two rugs
TenCompleted ==
    LET win  == Outcome("winner", 6, 3, 900)
        lose == Outcome("loser", 1, 0, 120)
        rug  == Outcome("rug", 2, 0, 150)
    IN  (1 :> Stored(1, AllScores(9), win))
        @@ (2 :> Stored(2, AllScores(8), win))
        @@ (3 :> Stored(3, AllScores(8), win))
        @@ (4 :> Stored(4, NarrativeOnly(9, 3), win))
        @@ (5 :> Stored(5, NarrativeOnly(8, 4), win))
        @@ (6 :> Stored(6, AllScores(7), lose))
        @@ (7 :> Stored(7, AllScores(2), lose))
        @@ (8 :> Stored(8, NarrativeOnly(2, 6), lose))
        @@ (9 :> Stored(9, NarrativeOnly(4, 8), rug))
        @@ (10 :> Stored(10, AllScores(1), rug))

\* a ledger of 29 completed records whose winners and losers differ by one
\* narrative point in all: 15 winners with narrative 29 in sum, 14 losers
\* with narrative 27 in sum, every other component 5 throughout
NearTie ==
    [m \in 1..29 |->
        Stored(m, NarrativeOnly(IF m \in {1, 16} THEN 1 ELSE 2, 5),
               IF m <= 15 THEN Outcome("winner", 6, 3, 900)
               ELSE Outcome("loser", 1, 0, 120))]

\* the ledgers found on disk at start-up
InitLedgers ==
    { EmptyLedger,
      \* every winner dominates every loser on all components
      (1 :> Stored(1, AllScores(9), Outcome("winner", 6, 3, 900)))
        @@ (2 :> Stored(2, AllScores(2), Outcome("loser", 1, 0, 120))),
      \* a winner that leads on narrative only, a loser, a high-scored rug
      \* and a pending record that scores highest
      (1 :> Stored(1, NarrativeOnly(9, 3), Outcome("winner", 6, 3, 900)))
        @@ (2 :> Stored(2, NarrativeOnly(2, 6), Outcome("loser", 1, 0, 120)))
        @@ (3 :> Stored(3, NarrativeOnly(4, 8), Outcome("rug", 2, 0, 150)))
        @@ (4 :> SignalRecord(WithMint(4, Kw(AllScores(10))), 0)),
      \* one side only, and a pending record
      (1 :> Stored(1, AllScores(9), Outcome("winner", 6, 3, 900)))
        @@ (2 :> Stored(2, NarrativeOnly(9, 3), Outcome("winner", 6, 3, 900)))
        @@ (3 :> SignalRecord(WithMint(3, Kw(AllScores(2))), 0)),
      \* four completed records, ranked winner, loser, winner, loser
      (1 :> Stored(1, AllScores(9), Outcome("winner", 6, 3, 900)))
        @@ (2 :> Stored(2, AllScores(7), Outcome("loser", 1, 0, 120)))
        @@ (3 :> Stored(3, AllScores(3), Outcome("winner", 3, 1, 400)))
        @@ (4 :> Stored(4, AllScores(2), Outcome("loser", 1, 0, 120))),
      \* no winner: a loser and a high-scored rug
      (1 :> Stored(1, NarrativeOnly(2, 6), Outcome("loser", 1, 0, 120)))
        @@ (2 :> Stored(2, NarrativeOnly(4, 8), Outcome("rug", 2, 0, 150))),
      TenCompleted,
      NearTie }

\* a ledger file whose second entry has a key the dataclass does not know
PartlyMalformedFile ==
    OkFile((1 :> to_dict(Stored(1, AllScores(9), Outcome("winner", 6, 3, 900))))
           @@ (2 :> [mint |-> 2, rank |-> 1])
           @@ (3 :> to_dict(Stored(3, AllScores(2), Outcome("loser", 1, 0, 120)))))

InitHistoryFiles ==
    {MissingFile, CorruptFile, PartlyMalformedFile}
        \cup {OkFile(Snapshot(l)) : l \in InitLedgers}

WeightsData(w, t, n) == [weights |-> w, optimized_at |-> t, records_used |-> n]

\* a weight file that parses, with a vector of one component
MalformedWeightsFile == OkFile(WeightsData([k \in {"narrative"} |-> WUnit], 0, 2))

\* the vector an earlier optimize() left active and wrote: its best
\* candidate, a second-generation child of the defaults, normalised once
\* more on return.  Its weights sum to 1.0002.
SecondGenerationBest ==
    _normalize(_mutate(_mutate(EXTENDED_WEIGHTS,
                               ("smart_money" :> 14) @@ ("bundles" :> 13)),
                       ("smart_money" :> 15)))

\* the weight files found on disk at start-up: none, an unreadable one, two
\* written by an earlier optimize(), or a malformed one
InitWeightsFiles ==
    { MissingFile, CorruptFile, MalformedWeightsFile,
      OkFile(WeightsData(_mutate(EXTENDED_WEIGHTS, ("narrative" :> 15)), 0, 2)),
      OkFile(WeightsData(SecondGenerationBest, 0, 2)) }

\* the population sizes and record thresholds optimize() is called with
PopulationInputs == {0, 3}

MinRecordsInputs == {2, 3}

\* the component maps score() is called with: all minimum, all maximum,
\* all zero (below the range), all 8, and one with out-of-range values, an
\* unknown component and six missing
ComponentMaps ==
    { AllScores(1), AllScores(10), AllScores(0), AllScores(8),
      [k \in {"narrative", "timing", "liquidity"} |->
          IF k = "narrative" THEN 0 ELSE 12] }

-----------------------------------------------------------------------------
(* State *)

Idle ==
    [pc |-> "idle", generations |-> 0, population |-> 0, gen |-> 0,
     completed |-> EmptyLedger, pop |-> <<>>,
     best_weights |-> EXTENDED_WEIGHTS, best_fitness |-> NegInf,
     start_weights |-> EXTENDED_WEIGHTS]

NoResult == [success |-> FALSE, called |-> FALSE]

NoScore == [called |-> FALSE]

NoStats == [called |-> FALSE]

NoCorrelations == [called |-> FALSE]

\* the tasks of the bot's event loop that call the ledger: the alert
\* pipeline (_bot_loop) and the tracker (track_tokens)
Tasks == {"alerts", "tracker"}

\* no task is inside a ledger call
IdleTasks == [t \in Tasks |-> [pc |-> "idle", data |-> EmptyLedger, served |-> 0]]

Call(op, m, g, p, n) ==
    [op |-> op, mint |-> m, generations |-> g, population |-> p, min_records |-> n]

\* SignalHistory.__init__ and WeightOptimizer.__init__: both load their file
Init ==
    /\ historyFile \in InitHistoryFiles
    /\ weightsFile \in InitWeightsFiles
    /\ records = _load(historyFile, now)
    /\ current_weights = _load_weights(weightsFile)
    /\ opt = Idle
    /\ result = NoResult
    /\ scoreOut = NoScore
    /\ statsOut = NoStats
    /\ corrOut = NoCorrelations
    /\ tasks = IdleTasks
    /\ lastOp = Call("init", 0, 0, 0, 0)
    /\ lastWrite = [file |-> "none", ok |-> TRUE]
    /\ now = 1
    /\ calls = 0

-----------------------------------------------------------------------------
(* SignalHistory: the ledger operations.  The bot calls them from its     *)
(* event loop, and optimize() holds no await: no ledger call runs while   *)
(* an optimize() call is in progress.                                     *)

\* SignalHistory._save: write the snapshot; an exception is printed and dropped
_save(recs) ==
    \E w \in WriteOutcomes(historyFile, Snapshot(recs)) :
        /\ historyFile' = w.file
        /\ lastWrite' = [file |-> "history", ok |-> w.ok]

record_signal(mint, kw) ==
    /\ opt.pc = "idle"
    /\ calls < MaxCalls
    /\ records' = (mint :> SignalRecord(WithMint(mint, kw), now)) @@ records
    /\ _save(records')
    /\ now' = now + 1
    /\ calls' = calls + 1
    /\ lastOp' = Call("record_signal", mint, 0, 0, 0)
    /\ UNCHANGED <<current_weights, weightsFile, opt, result, scoreOut, statsOut, corrOut, tasks>>

\* update_outcome that saves whether or not the mint is known
update_outcome_AlwaysSaves(mint, o) ==
    /\ opt.pc = "idle"
    /\ calls < MaxCalls
    /\ records' = IF mint \in DOMAIN records
                  THEN [records EXCEPT ![mint] = SetOutcome(@, o)]
                  ELSE records
    /\ _save(records')
    /\ calls' = calls + 1
    /\ lastOp' = Call("update_outcome", mint, 0, 0, 0)
    /\ UNCHANGED <<current_weights, weightsFile, opt, result, scoreOut, statsOut, corrOut, tasks, now>>

update_outcome(mint, o) ==
    /\ opt.pc = "idle"
    /\ calls < MaxCalls
    /\ IF mint \in DOMAIN records
       THEN /\ records' = [records EXCEPT ![mint] = SetOutcome(@, o)]
            /\ _save(records')
       ELSE UNCHANGED <<records, historyFile, lastWrite>>
    /\ calls' = calls + 1
    /\ lastOp' = Call("update_outcome", mint, 0, 0, 0)
    /\ UNCHANGED <<current_weights, weightsFile, opt, result, scoreOut, statsOut, corrOut, tasks, now>>

\* max((r.peak_x for r in completed), default=0)
MaxPeak(recs, S) ==
    IF S = {} THEN 0
    ELSE CHOOSE p \in {recs[m].peak_x : m \in S} :
            \A m \in S : recs[m].peak_x <= p

\* the statistics of a ledger with completed records; a rate is rounded to
\* 3 decimals (thousandths), an average to 2 (hundredths).  raised: one of
\* the divisions evaluated has a zero divisor (ZeroDivisionError).
Statistics(recs, completed) ==
    LET winners == {m \in completed : recs[m].outcome = "winner"}
        losers  == {m \in completed : recs[m].outcome \in {"loser", "rug"}}
        rugs    == {m \in completed : recs[m].outcome = "rug"}
        alerted == {m \in completed : recs[m].alert_sent}
        alerted_winners == {m \in alerted : recs[m].outcome = "winner"}
        peak == [m \in DOMAIN recs |-> recs[m].peak_x]
        divisors ==
            (IF completed # {} THEN {Cardinality(completed)} ELSE {})
            \cup (IF winners # {} THEN {Cardinality(winners)} ELSE {})
            \cup (IF losers # {} THEN {Cardinality(losers)} ELSE {})
            \cup (IF alerted # {} THEN {Cardinality(alerted)} ELSE {})
    IN  IF 0 \in divisors
        THEN [raised |-> TRUE]
        ELSE [raised        |-> FALSE,
              total_signals |-> Cardinality(DOMAIN recs),
              completed     |-> Cardinality(completed),
              winners       |-> Cardinality(winners),
              losers        |-> Cardinality(losers),
              rugs          |-> Cardinality(rugs),
              win_rate      |-> IF completed # {}
                                THEN RoundDiv(Cardinality(winners) * 1000,
                                              Cardinality(completed))
                                ELSE 0,
              avg_peak_x_winners |->
                  IF winners # {}
                  THEN RoundDiv(SumOver(peak, winners) * 100, Cardinality(winners))
                  ELSE 0,
              avg_peak_x_losers |->
                  IF losers # {}
                  THEN RoundDiv(SumOver(peak, losers) * 100, Cardinality(losers))
                  ELSE 0,
              alerted       |-> Cardinality(alerted),
              alerted_win_rate |->
                  IF alerted # {}
                  THEN RoundDiv(Cardinality(alerted_winners) * 1000,
                                Cardinality(alerted))
                  ELSE 0,
              best_trade_x  |-> MaxPeak(recs, completed)]

\* get_stats without the early return for no completed record
StatsOf_NoEarlyReturn(recs) ==
    Statistics(recs, get_completed_records(recs))

\* what SignalHistory.get_stats returns on the ledger recs
StatsOf(recs) ==
    LET completed == get_completed_records(recs)
    IN  IF completed = {}
        THEN [raised |-> FALSE, total |-> 0, message |-> "No completed signals yet"]
        ELSE Statistics(recs, completed)

\* SignalHistory.get_stats, called by the bot's performance command
get_stats ==
    /\ opt.pc = "idle"
    /\ calls < MaxCalls
    /\ calls' = calls + 1
    /\ lastOp' = Call("get_stats", 0, 0, 0, 0)
    /\ statsOut' = [called |-> TRUE, out |-> StatsOf(records)]
    /\ UNCHANGED <<records, historyFile, current_weights, weightsFile, opt,
                   result, scoreOut, corrOut, tasks, lastWrite, now>>

\* the least number of completed records of a correlation report
MinCorrelationRecords == 10

\* one component's entry of the report: the averages and the separation
\* rounded to 2 decimals (hundredths), predictive_power decided on the
\* separation before rounding
CorrelationOf(recs, completed, comp) ==
    LET W  == {m \in completed : recs[m].outcome = "winner"}
        L  == {m \in completed : recs[m].outcome \in {"loser", "rug"}}
        s  == [m \in DOMAIN recs |-> get_component_scores(recs[m])[comp]]
        nW == Cardinality(W)
        nL == Cardinality(L)
        dW == Max(nW, 1)
        dL == Max(nL, 1)
        \* separation = sepNum / (dW * dL)
        sepNum == SumOver(s, W) * dL - SumOver(s, L) * dW
    IN  [avg_winner_score |-> IF W = {} THEN 0
                              ELSE RoundDiv(SumOver(s, W) * 100, nW),
         avg_loser_score  |-> IF L = {} THEN 0
                              ELSE RoundDiv(SumOver(s, L) * 100, nL),
         separation       |-> RoundDiv(sepNum * 100, dW * dL),
         predictive_power |-> IF sepNum > 2 * dW * dL THEN "strong"
                              ELSE IF sepNum > dW * dL THEN "moderate"
                              ELSE IF sepNum > 0 THEN "weak"
                              ELSE "negative"]

\* sorted(correlations.items(), key=separation, reverse=True): a stable
\* sort of the components, strongest first
SortedComponents(entries) ==
    LET n == Len(ComponentList)
        sep(i) == entries[ComponentList[i]].separation
        pos(i) == 1 + Cardinality({j \in 1..n :
                        sep(j) > sep(i) \/ (j < i /\ sep(j) = sep(i))})
    IN  [p \in 1..n |-> ComponentList[CHOOSE i \in 1..n : pos(i) = p]]

\* the report over the completed records
Report(recs, completed) ==
    LET entries == Eager([k \in Components |-> CorrelationOf(recs, completed, k)])
    IN  [entries |-> entries, order |-> SortedComponents(entries)]

\* get_component_correlations that reports on any ledger with a completed record
CorrelationsOf_AnyCompleted(recs) ==
    LET completed == get_completed_records(recs)
    IN  IF Cardinality(completed) < 1
        THEN [message |-> "Need at least 10 completed signals for correlation analysis"]
        ELSE Report(recs, completed)

\* what SignalHistory.get_component_correlations returns on the ledger recs
CorrelationsOf(recs) ==
    LET completed == get_completed_records(recs)
    IN  IF Cardinality(completed) < MinCorrelationRecords
        THEN [message |-> "Need at least 10 completed signals for correlation analysis"]
        ELSE Report(recs, completed)

\* SignalHistory.get_component_correlations, called by the bot's
\* performance command
get_component_correlations ==
    /\ opt.pc = "idle"
    /\ calls < MaxCalls
    /\ calls' = calls + 1
    /\ lastOp' = Call("get_component_correlations", 0, 0, 0, 0)
    /\ corrOut' = [called |-> TRUE, out |-> CorrelationsOf(records)]
    /\ UNCHANGED <<records, historyFile, current_weights, weightsFile, opt,
                   result, scoreOut, statsOut, tasks, lastWrite, now>>

-----------------------------------------------------------------------------
(* WeightOptimizer.optimize, in three steps: the entry (the record check   *)
(* and the seeding of the population), one step per generation, and the   *)
(* exit (normalise, swap in, save, return).                                *)

\* _save_weights that writes the vector that was active before the call
_save_weights_Stale(weights) ==
    \E w \in WriteOutcomes(weightsFile,
            WeightsData(current_weights, now,
                        Cardinality(get_completed_records(records)))) :
        /\ weightsFile' = w.file
        /\ lastWrite' = [file |-> "weights", ok |-> w.ok]

\* WeightOptimizer._save_weights: an exception is printed and dropped
_save_weights(weights) ==
    \E w \in WriteOutcomes(weightsFile,
            WeightsData(weights, now, Cardinality(get_completed_records(records)))) :
        /\ weightsFile' = w.file
        /\ lastWrite' = [file |-> "weights", ok |-> w.ok]

\* a seeding of mutated copies only, without the current vector
Seeded_WithoutCurrent(generations, population, completed, seeds) ==
    [pc |-> "loop", generations |-> generations, population |-> population,
     gen |-> 0, completed |-> completed,
     pop |-> [i \in 1..Max(0, population - 1) |->
                 _mutate(current_weights, seeds[i])],
     best_weights |-> current_weights, best_fitness |-> NegInf,
     start_weights |-> current_weights]

\* the locals after the seeding of the population
Seeded(generations, population, completed, seeds) ==
    [pc |-> "loop", generations |-> generations, population |-> population,
     gen |-> 0, completed |-> completed,
     pop |-> <<current_weights>>
               \o [i \in 1..Max(0, population - 1) |->
                     _mutate(current_weights, seeds[i])],
     best_weights |-> current_weights, best_fitness |-> NegInf,
     start_weights |-> current_weights]

\* optimize that falls back to the default vector when the records are too few
optimize_ResetsOnFailure(generations, population, min_records) ==
    /\ opt.pc = "idle"
    /\ calls < MaxCalls
    /\ calls' = calls + 1
    /\ lastOp' = Call("optimize", 0, generations, population, min_records)
    /\ LET done == get_completed_records(records)
           completed == [m \in done |-> records[m]]
       IN  IF Cardinality(done) < min_records
           THEN /\ result' = [success |-> FALSE, called |-> TRUE,
                              need |-> min_records, have |-> Cardinality(done),
                              weights |-> EXTENDED_WEIGHTS]
                /\ current_weights' = EXTENDED_WEIGHTS
                /\ UNCHANGED opt
           ELSE /\ \E seeds \in [1..Max(0, population - 1) -> Mutations] :
                      opt' = Seeded(generations, population, completed, seeds)
                /\ UNCHANGED <<result, current_weights>>
    /\ UNCHANGED <<records, historyFile, weightsFile, scoreOut, statsOut, corrOut, tasks, lastWrite, now>>

optimize(generations, population, min_records) ==
    /\ opt.pc = "idle"
    /\ calls < MaxCalls
    /\ calls' = calls + 1
    /\ lastOp' = Call("optimize", 0, generations, population, min_records)
    /\ LET done == get_completed_records(records)
           completed == [m \in done |-> records[m]]
       IN  IF Cardinality(done) < min_records
           THEN /\ result' = [success |-> FALSE, called |-> TRUE,
                              need |-> min_records, have |-> Cardinality(done),
                              weights |-> current_weights]
                /\ UNCHANGED opt
           ELSE /\ \E seeds \in [1..Max(0, population - 1) -> Mutations] :
                      opt' = Seeded(generations, population, completed, seeds)
                /\ UNCHANGED result
    /\ UNCHANGED <<records, historyFile, current_weights, weightsFile,
                   scoreOut, statsOut, corrOut, tasks, lastWrite, now>>

\* the population evaluated and sorted, best first
Scored(pop, completed) ==
    SortScored(Eager([i \in 1..Len(pop) |->
        [fitness |-> _evaluate_fitness(pop[i], completed), weights |-> pop[i]]]))

\* max(2, population // 5)
EliteCount(population) == Max(2, population \div 5)

\* the locals after one more generation; children[i] is the draw of the
\* i-th refill: the index of the parent among scored[:elite_count * 2] and
\* the mutation
NextGeneration(o, children) ==
    LET scored == Scored(o.pop, o.completed)
        better == FitGT(scored[1].fitness, o.best_fitness)
        elite  == Take(scored, EliteCount(o.population))
        pool   == Take(scored, EliteCount(o.population) * 2)
    IN  [o EXCEPT
            !.best_fitness = IF better THEN scored[1].fitness ELSE @,
            !.best_weights = IF better THEN scored[1].weights ELSE @,
            !.pop = [i \in 1..Len(elite) |-> elite[i].weights]
                      \o [i \in 1..Len(children) |->
                            _mutate(pool[children[i][1]].weights, children[i][2])],
            !.gen = @ + 1]

\* the draws of one generation's refill loop
ChildDraws(o) ==
    LET n == Len(o.pop)
        elites == Min(n, EliteCount(o.population))
        pool   == Min(n, EliteCount(o.population) * 2)
    IN  [1..Max(0, o.population - elites) -> (1..pool) \X Mutations]

\* a generation that swaps its best-so-far vector in at once
optimize_generation_Publishes ==
    /\ opt.pc = "loop"
    /\ opt.gen < opt.generations
    /\ \E children \in ChildDraws(opt) : opt' = NextGeneration(opt, children)
    /\ current_weights' = opt'.best_weights
    /\ UNCHANGED <<records, historyFile, weightsFile,
                   result, scoreOut, statsOut, corrOut, tasks, lastOp, lastWrite, now, calls>>

optimize_generation ==
    /\ opt.pc = "loop"
    /\ opt.gen < opt.generations
    /\ \E children \in ChildDraws(opt) : opt' = NextGeneration(opt, children)
    /\ UNCHANGED <<records, historyFile, current_weights, weightsFile,
                   result, scoreOut, statsOut, corrOut, tasks, lastOp, lastWrite, now, calls>>

\* the dict a successful optimize() returns
Success(best_weights, old_fitness, best_fitness, completed) ==
    [success |-> TRUE, called |-> TRUE, weights |-> best_weights,
     old_fitness |-> Round4(old_fitness), new_fitness |-> Round4(best_fitness),
     records_used |-> Cardinality(DOMAIN completed)]

\* an exit that can be taken before the last generation
optimize_finish_EarlyStop ==
    /\ opt.pc = "loop"
    /\ opt.gen <= opt.generations
    /\ LET best_weights == _normalize(opt.best_weights)
           old_fitness  == _evaluate_fitness(current_weights, opt.completed)
       IN  /\ current_weights' = best_weights
           /\ _save_weights(best_weights)
           /\ result' = Success(best_weights, old_fitness, opt.best_fitness,
                                opt.completed)
    /\ opt' = Idle
    /\ UNCHANGED <<records, historyFile, scoreOut, statsOut, corrOut, tasks, lastOp, now, calls>>

optimize_finish ==
    /\ opt.pc = "loop"
    /\ opt.gen = opt.generations
    /\ LET best_weights == _normalize(opt.best_weights)
           old_fitness  == _evaluate_fitness(current_weights, opt.completed)
       IN  /\ current_weights' = best_weights
           /\ _save_weights(best_weights)
           /\ result' = Success(best_weights, old_fitness, opt.best_fitness,
                                opt.completed)
    /\ opt' = Idle
    /\ UNCHANGED <<records, historyFile, scoreOut, statsOut, corrOut, tasks, lastOp, now, calls>>

-----------------------------------------------------------------------------
(* AdaptiveEntryScorer.score: a read of the active vector, callable at any *)
(* time, also between two steps of an optimize() call                      *)

score(components) ==
    /\ calls < MaxCalls
    /\ calls' = calls + 1
    /\ lastOp' = Call("score", 0, 0, 0, 0)
    /\ scoreOut' = [called |-> TRUE, components |-> components,
                    running |-> opt.pc # "idle",
                    out |-> ScoreResult(components, get_weights, weightsFile)]
    /\ UNCHANGED <<records, historyFile, current_weights, weightsFile, opt,
                   result, statsOut, corrOut, tasks, lastWrite, now>>

-----------------------------------------------------------------------------
(* The process stops and the bot is started again.  A stop can fall inside *)
(* a write_text call.                                                      *)

\* SignalHistory() and WeightOptimizer(history) over the files hf and wf;
\* everything else the process held is gone
Constructed(hf, wf) ==
    /\ historyFile' = hf
    /\ weightsFile' = wf
    /\ records' = _load(hf, now')
    /\ current_weights' = _load_weights(wf)
    /\ opt' = Idle
    /\ result' = NoResult
    /\ scoreOut' = NoScore
    /\ statsOut' = NoStats
    /\ corrOut' = NoCorrelations
    /\ tasks' = IdleTasks
    /\ lastWrite' = [file |-> "none", ok |-> TRUE]

\* a stop between two calls
restart ==
    /\ calls < MaxCalls
    /\ calls' = calls + 1
    /\ lastOp' = Call("restart", 0, 0, 0, 0)
    /\ now' = now
    /\ Constructed(historyFile, weightsFile)

\* a stop inside the write_text of record_signal's _save
record_signal_killed(mint, kw) ==
    /\ opt.pc = "idle"
    /\ calls < MaxCalls
    /\ calls' = calls + 1
    /\ lastOp' = Call("killed", mint, 0, 0, 0)
    /\ now' = now + 1
    /\ LET recs == (mint :> SignalRecord(WithMint(mint, kw), now)) @@ records
       IN  \E f \in KilledWrite(historyFile, Snapshot(recs)) :
              Constructed(f, weightsFile)

\* a stop inside the write_text of update_outcome's _save
update_outcome_killed(mint, o) ==
    /\ opt.pc = "idle"
    /\ calls < MaxCalls
    /\ mint \in DOMAIN records
    /\ calls' = calls + 1
    /\ lastOp' = Call("killed", mint, 0, 0, 0)
    /\ now' = now
    /\ LET recs == [records EXCEPT ![mint] = SetOutcome(@, o)]
       IN  \E f \in KilledWrite(historyFile, Snapshot(recs)) :
              Constructed(f, weightsFile)

\* a stop inside the write_text of optimize's _save_weights
optimize_finish_killed ==
    /\ opt.pc = "loop"
    /\ opt.gen = opt.generations
    /\ lastOp' = Call("killed", 0, 0, 0, 0)
    /\ now' = now
    /\ calls' = calls
    /\ \E f \in KilledWrite(weightsFile,
              WeightsData(_normalize(opt.best_weights), now,
                          Cardinality(get_completed_records(records)))) :
          Constructed(historyFile, f)

-----------------------------------------------------------------------------

Next ==
    \/ \E m \in Mints, kw \in KwInputs : record_signal(m, kw)
    \/ \E m \in Mints, o \in OutcomeInputs : update_outcome(m, o)
    \/ get_stats
    \/ get_component_correlations
    \/ \E g \in 0..MaxGenerations, p \in PopulationInputs, n \in MinRecordsInputs :
          optimize(g, p, n)
    \/ optimize_generation
    \/ optimize_finish
    \/ \E c \in ComponentMaps : score(c)

Spec == Init /\ [][Next]_vars

-----------------------------------------------------------------------------
(* The ledger alone, over restarts of the bot: the optimizer and the scorer *)
(* are never called                                                        *)

NextLedger ==
    \/ \E m \in Mints, kw \in KwInputs : record_signal(m, kw)
    \/ \E m \in Mints, o \in OutcomeInputs : update_outcome(m, o)
    \/ get_stats
    \/ get_component_correlations
    \/ restart

\* no weight file was ever written
LedgerInit == Init /\ weightsFile = MissingFile

LedgerSpec == LedgerInit /\ [][NextLedger]_vars

(* The optimizer and the scorer over the ledger found at start-up *)

NextOptimizer ==
    \/ \E g \in 0..MaxGenerations, p \in PopulationInputs, n \in MinRecordsInputs :
          optimize(g, p, n)
    \/ optimize_generation
    \/ optimize_finish
    \/ \E c \in ComponentMaps : score(c)

\* the ledger is too short for a correlation report
ShortLedger == Cardinality(DOMAIN records) < MinCorrelationRecords

\* the ledger file was written by an earlier run
OptimizerInit == Init /\ historyFile.kind = "ok" /\ ShortLedger

OptimizerSpec == OptimizerInit /\ [][NextOptimizer]_vars

(* The engine over the life of the bot: calls, stops and restarts *)

NextRestart ==
    \/ \E m \in Mints, kw \in KwInputs : record_signal(m, kw)
    \/ \E m \in Mints, o \in OutcomeInputs : update_outcome(m, o)
    \/ get_stats
    \/ \E g \in 0..MaxGenerations, p \in PopulationInputs, n \in MinRecordsInputs :
          optimize(g, p, n)
    \/ optimize_generation
    \/ optimize_finish
    \/ restart
    \/ \E m \in Mints, kw \in KwInputs : record_signal_killed(m, kw)
    \/ \E m \in Mints, o \in OutcomeInputs : update_outcome_killed(m, o)
    \/ optimize_finish_killed

RestartSpec == Init /\ [][NextRestart]_vars

-----------------------------------------------------------------------------
(* _mutate and _normalize on their own: one call on a vector in each run, *)
(* with the call and what it returned kept in result                      *)

\* the factors drawn by random.uniform(0.5, 1.5), in tenths: both ends and
\* one value between
Factors == {5, 12, 15}

\* every draw of _mutate: random.sample of 1 to 3 of the components, and a
\* factor for each
MutationDraws ==
    UNION {[T -> Factors] :
             T \in {S \in SUBSET Components : Cardinality(S) \in 1..3}}

Zeros(S) == [k \in S |-> 0]

\* the parents _mutate is called on: the default vector, one an optimize()
\* wrote, one whose bundles weight is 0.015, and two a weight file gave
MutateInputs ==
    { EXTENDED_WEIGHTS,
      _mutate(EXTENDED_WEIGHTS, ("narrative" :> 15)),
      [EXTENDED_WEIGHTS EXCEPT !["bundles"] = 150, !["smart_money"] = 2350],
      [k \in {"narrative"} |-> WUnit],
      Zeros(Components) }

\* the vectors _normalize is called on: of sum 0 (all zero over 8, 4, 2, 1
\* and no component, and two weights that cancel) and of other sums
NormalizeInputs ==
    { Zeros(Components),
      Zeros({"narrative", "timing", "holders", "deployer"}),
      Zeros({"narrative", "timing"}),
      Zeros({"narrative"}),
      Zeros({}),
      ("narrative" :> 0 - WUnit) @@ ("timing" :> WUnit),
      EXTENDED_WEIGHTS,
      [k \in Components |-> 2 * EXTENDED_WEIGHTS[k]] }

\* new_weights = weights.copy(): the call writes to the copy, and the
\* caller's vector is after the call what it was before
_mutate_call(weights, mu) ==
    /\ ~result.called
    /\ result' = [success |-> FALSE, called |-> TRUE, fn |-> "_mutate",
                  weights |-> weights, draw |-> mu, parent |-> weights,
                  out |-> _mutate(weights, mu)]
    /\ lastOp' = Call("_mutate", 0, 0, 0, 0)
    /\ UNCHANGED <<records, historyFile, current_weights, weightsFile, opt,
                   scoreOut, statsOut, corrOut, tasks, lastWrite, now, calls>>

_normalize_call(weights) ==
    /\ ~result.called
    /\ result' = [success |-> FALSE, called |-> TRUE, fn |-> "_normalize",
                  weights |-> weights, out |-> _normalize(weights)]
    /\ lastOp' = Call("_normalize", 0, 0, 0, 0)
    /\ UNCHANGED <<records, historyFile, current_weights, weightsFile, opt,
                   scoreOut, statsOut, corrOut, tasks, lastWrite, now, calls>>

NextVector ==
    \/ \E w \in MutateInputs, mu \in MutationDraws : _mutate_call(w, mu)
    \/ \E w \in NormalizeInputs : _normalize_call(w)

\* an optimizer constructed with no file on disk
VectorInit == Init /\ historyFile = MissingFile /\ weightsFile = MissingFile

VectorSpec == VectorInit /\ [][NextVector]_vars

-----------------------------------------------------------------------------
(* The bot: the alert pipeline, the tracker and the command handler are    *)
(* tasks of one asyncio event loop.  A task holds the loop from one await *)
(* to the next; record_signal, update_outcome, score and optimize are     *)
(* plain calls with no await inside.  A ledger call is taken in two       *)
(* steps, the mutation with the building of the snapshot and the write of *)
(* the file, and an optimize() call in three, as above.                   *)

\* tasks that preempt each other at any point, as threads do
Scheduled_Preemptive(t) == opt.pc = "idle"

\* the loop can run the task t: no other task is between two of its awaits,
\* and the command handler is not inside optimize()
Scheduled(t) ==
    /\ opt.pc = "idle"
    /\ \A u \in Tasks \ {t} : tasks[u].pc = "idle"

\* the task t has mutated the ledger and is about to write the snapshot data
InSave(t, data) == [tasks EXCEPT ![t] = [@ EXCEPT !.pc = "save", !.data = data]]

\* the alert pipeline's record_signal call, up to the write
bot_record_signal(mint, kw) ==
    /\ Scheduled("alerts")
    /\ tasks["alerts"].pc = "idle"
    /\ calls < MaxCalls
    /\ records' = (mint :> SignalRecord(WithMint(mint, kw), now)) @@ records
    /\ tasks' = InSave("alerts", Snapshot(records'))
    /\ now' = now + 1
    /\ calls' = calls + 1
    /\ lastOp' = Call("record_signal", mint, 0, 0, 0)
    /\ UNCHANGED <<historyFile, current_weights, weightsFile, opt, result,
                   scoreOut, statsOut, corrOut, lastWrite>>

\* the tracker's update_outcome call, up to the write; on an unknown mint
\* the call returns at once
bot_update_outcome(mint, o) ==
    /\ Scheduled("tracker")
    /\ tasks["tracker"].pc = "idle"
    /\ calls < MaxCalls
    /\ IF mint \in DOMAIN records
       THEN /\ records' = [records EXCEPT ![mint] = SetOutcome(@, o)]
            /\ tasks' = InSave("tracker", Snapshot(records'))
       ELSE UNCHANGED <<records, tasks>>
    /\ calls' = calls + 1
    /\ lastOp' = Call("update_outcome", mint, 0, 0, 0)
    /\ UNCHANGED <<historyFile, current_weights, weightsFile, opt, result,
                   scoreOut, statsOut, corrOut, lastWrite, now>>

\* the write_text of the call the task t is in, and the return of the call
bot_save(t) ==
    /\ Scheduled(t)
    /\ tasks[t].pc = "save"
    /\ \E w \in WriteOutcomes(historyFile, tasks[t].data) :
          /\ historyFile' = w.file
          /\ lastWrite' = [file |-> "history", ok |-> w.ok]
    /\ tasks' = [tasks EXCEPT ![t] = [pc |-> "idle", data |-> EmptyLedger,
                                       served |-> @.served + 1]]
    /\ UNCHANGED <<records, current_weights, weightsFile, opt, result,
                   scoreOut, statsOut, corrOut, lastOp, now, calls>>

\* the alert pipeline's scorer_v2.score call
bot_score(components) ==
    /\ Scheduled("alerts")
    /\ tasks["alerts"].pc = "idle"
    /\ score(components)

\* the command handler's run_optimization: weight_optimizer.optimize(),
\* always with the same number of generations, which is not 0
bot_optimize(population, min_records) ==
    /\ \A t \in Tasks : tasks[t].pc = "idle"
    /\ optimize(MaxGenerations, population, min_records)

NextBot ==
    \/ \E m \in Mints, kw \in KwInputs : bot_record_signal(m, kw)
    \/ \E m \in Mints, o \in OutcomeInputs : bot_update_outcome(m, o)
    \/ \E t \in Tasks : bot_save(t)
    \/ \E c \in ComponentMaps : bot_score(c)
    \/ \E p \in PopulationInputs, n \in MinRecordsInputs : bot_optimize(p, n)
    \/ optimize_generation
    \/ optimize_finish

\* the most records of the ledger the bot starts on
MaxStartRecords == 2

\* the bot's first start, on a ledger of few records and no weight file
BotInit ==
    /\ Init
    /\ weightsFile = MissingFile
    /\ Cardinality(DOMAIN records) <= MaxStartRecords

BotSpec == BotInit /\ [][NextBot]_vars

-----------------------------------------------------------------------------
(* Properties *)

\* the step is the entry of a call op
Calls(op) == calls' = calls + 1 /\ lastOp'.op = op

NumCompleted == Cardinality(get_completed_records(records))

\* C1: an optimize() call made while the ledger holds fewer than min_records
\* completed records returns success=False with the message's two counts and
\* the current weights, starts no run, and leaves the active vector and the
\* weight file as they were.
C1_NotEnoughData ==
    [][(Calls("optimize") /\ NumCompleted < lastOp'.min_records)
        => /\ result'.called /\ ~result'.success
           /\ result'.need = lastOp'.min_records
           /\ result'.have = NumCompleted
           /\ result'.weights = current_weights
           /\ opt'.pc = "idle"
           /\ current_weights' = current_weights
           /\ weightsFile' = weightsFile]_vars

\* some completed records, fewer than asked for, an optimized vector active
C1_Witness ==
    /\ lastOp.op = "optimize"
    /\ result.called /\ ~result.success
    /\ result.have > 0
    /\ weightsFile.kind = "ok"
    /\ current_weights # EXTENDED_WEIGHTS

\* the weights a score() result was computed with
WeightsUsed(out) == [k \in DOMAIN out.breakdown |-> out.breakdown[k].weight]

\* C2: while an optimize() run is in progress the active vector is the one
\* that was active when the run started, a score() made during the run is
\* computed with that vector, and the step that ends the run makes the
\* returned vector the active one.
C2_ScoreDuringOptimize ==
    [][/\ opt'.pc = "loop" => current_weights' = opt'.start_weights
       /\ (opt.pc = "loop" /\ Calls("score"))
            => WeightsUsed(scoreOut'.out) = opt.start_weights
       /\ (opt.pc = "loop" /\ opt'.pc = "idle")
            => (result'.success /\ current_weights' = result'.weights)]_vars

\* a score() made after a generation found a better vector than the active one
C2_Witness ==
    /\ opt.pc = "loop" /\ opt.gen >= 1
    /\ opt.best_weights # current_weights
    /\ lastOp.op = "score" /\ scoreOut.called /\ scoreOut.running

\* C3: once a record's outcome is winner, loser or rug, no update_outcome
\* call changes it.
C3_TerminalOutcomeKept ==
    [][Calls("update_outcome")
        => \A m \in DOMAIN records :
              records[m].outcome \in Terminal
                => (m \in DOMAIN records' /\ records'[m].outcome = records[m].outcome)]_vars

\* C4: record_signal on an id whose record has a terminal outcome leaves
\* that record as it is.
C4_RecordSignalKeepsTerminal ==
    [][Calls("record_signal")
        => \A m \in DOMAIN records :
              records[m].outcome \in Terminal
                => (m \in DOMAIN records' /\ records'[m] = records[m])]_vars

\* every winner's score is above every loser's on every component
Dominated(recs) ==
    /\ get_winners(recs) # {} /\ get_losers(recs) # {}
    /\ \A w \in get_winners(recs), l \in get_losers(recs), k \in Components :
          recs[w].scores[k] > recs[l].scores[k]

\* a >= b on the rounded fitness values of a result
RoundedGE(a, b) == b.inf \/ (~a.inf /\ a.val >= b.val)

\* C5: on a ledger whose winners dominate its losers, a successful
\* optimize() returns new_fitness >= old_fitness.
C5_DominatedNonRegression ==
    (result.called /\ result.success /\ Dominated(records))
        => RoundedGE(result.new_fitness, result.old_fitness)

\* C6: the weights a successful optimize() returns and persists, and the
\* weights of every vector _normalize produced for the population, sum to
\* 1.0 (a multiple of 1e-4 is within 1e-6 of 1.0 only if it is 1.0).
C6_WeightsSumToOne ==
    /\ (result.called /\ result.success) => SumFn(result.weights) = WUnit
    /\ (lastWrite = [file |-> "weights", ok |-> TRUE])
            => SumFn(weightsFile.data.weights) = WUnit
    /\ \A i \in 2..Len(opt.pop) : SumFn(opt.pop[i]) = WUnit

\* C7: the final_score of every score() result lies in [1, 10].
C7_ScoreInRange ==
    scoreOut.called
        => (scoreOut.out.final_score >= 100 /\ scoreOut.out.final_score <= 1000)

\* a score() whose weighted sum fell outside [1, 10] before the clamp
C7_Witness ==
    /\ scoreOut.called
    /\ LET total == SumFn([k \in DOMAIN scoreOut.out.breakdown |->
                              scoreOut.out.breakdown[k].weighted])
       IN  total < 1000 \/ total > 10000

\* the last call is a score() made after the last optimize() run had ended
ScoredAfterRun == lastOp.op = "score" /\ scoreOut.called /\ ~scoreOut.running

C9_UnknownIdNoOp ==
    [][(Calls("update_outcome") /\ lastOp'.mint \notin DOMAIN records)
        => /\ records' = records
           /\ historyFile' = historyFile
           /\ lastWrite' = lastWrite]_vars

\* an update_outcome for an unknown id, on a ledger that has records
C9_Witness ==
    /\ lastOp.op = "update_outcome"
    /\ lastOp.mint \notin DOMAIN records
    /\ DOMAIN records # {}

\* the last call changed the ledger
LedgerMutated ==
    \/ lastOp.op = "record_signal"
    \/ lastOp.op = "update_outcome" /\ lastOp.mint \in DOMAIN records

Constructed_Now == lastOp.op \in {"init", "restart", "killed"}

\* C11: a stop inside the write of the ledger file or of the weight file
\* leaves on disk the complete previous file or the complete new snapshot,
\* never a truncated one.
C11_AtomicWrites ==
    [][lastOp'.op = "killed"
        => /\ (historyFile' = historyFile \/ historyFile'.kind = "ok")
           /\ (weightsFile' = weightsFile \/ weightsFile'.kind = "ok")]_vars

\* every entry of the ledger file is one the constructor accepts
WellFormedFile(file) ==
    file.kind = "ok" /\ \A m \in DOMAIN file.data : Accepts(file.data[m])

\* C12: a ledger constructed over a missing, unreadable or malformed file,
\* also one where only some entries are malformed, is empty.
C12_BadFileEmptyLedger ==
    (Constructed_Now /\ ~WellFormedFile(historyFile)) => records = EmptyLedger

\* the weight file holds a vector over the eight components
WellFormedWeights(file) ==
    file.kind = "ok" /\ DOMAIN file.data.weights = Components

\* C13: an optimizer constructed over a missing, unreadable or malformed
\* weight file has the default 8-component vector as its active vector.
C13_BadFileDefaultWeights ==
    (Constructed_Now /\ ~WellFormedWeights(weightsFile))
        => current_weights = EXTENDED_WEIGHTS

\* the cap the ledger is to be kept under
LedgerCap == 1

\* C14: after a record_signal call the ledger holds no more records than
\* the cap.
C14_LedgerBounded ==
    [][Calls("record_signal") => Cardinality(DOMAIN records') <= LedgerCap]_vars

\* C15: a ledger saved by a write that returned and loaded by a newly
\* constructed SignalHistory has the same ids and the same value in every
\* field of every record.
C15_LedgerRoundTrip ==
    [][(lastOp'.op = "restart" /\ lastWrite = [file |-> "history", ok |-> TRUE])
        => records' = records]_vars

\* a restart that loaded a record the previous run had recorded and a
\* record whose outcome it had set
C15_Witness ==
    /\ lastOp.op = "restart"
    /\ \E m \in DOMAIN records : records[m].timestamp >= 1
    /\ \E m \in DOMAIN records : records[m].outcome \in Terminal

C17_ScoresClamped ==
    \A m \in DOMAIN records :
        /\ DOMAIN records[m].scores = Components
        /\ \A k \in Components :
              records[m].scores[k] >= 1 /\ records[m].scores[k] <= 10

\* the active vector is the result of an optimization: of a run of this
\* process, or of an earlier one, loaded from the weight file
FromOptimization ==
    \/ result.called /\ result.success
    \/ weightsFile.kind = "ok" /\ DOMAIN weightsFile.data.weights # {}

\* C18: a score() result is tagged "optimized" when the vector it used came
\* from an optimization and "default" when it used the default vector.
C18_SourceAgrees ==
    ScoredAfterRun
        => (scoreOut.out.weights_source = "optimized" <=> FromOptimization)

\* C19: the verdict of a score() result is the one the thresholds give for
\* the final_score of that result (final_score is in hundredths, the
\* thresholds of _verdict in thousandths).
C19_VerdictMatchesScore ==
    scoreOut.called
        => scoreOut.out.verdict = _verdict(scoreOut.out.final_score * 10)

\* C20: get_stats raises on no ledger, and on a ledger with no completed
\* record it returns the zero-state object, whose total is 0.
C20_StatsZeroState ==
    lastOp.op = "get_stats"
        => /\ ~statsOut.out.raised
           /\ get_completed_records(records) = {}
                => /\ DOMAIN statsOut.out = {"raised", "total", "message"}
                   /\ statsOut.out.total = 0

\* get_stats on a ledger that holds pending records only
C20_Witness ==
    /\ lastOp.op = "get_stats"
    /\ statsOut.called
    /\ records # EmptyLedger
    /\ get_completed_records(records) = {}

\* C21: get_component_correlations on a ledger with fewer than 10 completed
\* records returns the insufficient-data message and no component's entry;
\* with 10 or more it returns a report with an entry for each of the 8
\* components.
C21_CorrelationsThreshold ==
    lastOp.op = "get_component_correlations"
        => IF NumCompleted < 10
           THEN DOMAIN corrOut.out = {"message"}
           ELSE /\ DOMAIN corrOut.out = {"entries", "order"}
                /\ DOMAIN corrOut.out.entries = Components
                /\ Cardinality(DOMAIN corrOut.out.entries) = 8
                /\ {corrOut.out.order[i] : i \in DOMAIN corrOut.out.order}
                      = Components

\* a report asked for on a ledger of 9 completed records and a pending one
C21_Witness ==
    /\ lastOp.op = "get_component_correlations"
    /\ corrOut.called
    /\ NumCompleted = 9
    /\ Cardinality(DOMAIN records) = 10

\* a report asked for on a ledger of 10 completed records
C21_WitnessReport ==
    /\ lastOp.op = "get_component_correlations"
    /\ NumCompleted = 10
    /\ "entries" \in DOMAIN corrOut.out

\* the last call is a score() computed with the default vector on a map
\* that gives every component the value c
UniformDefaultScore(c) ==
    /\ lastOp.op = "score"
    /\ scoreOut.called
    /\ WeightsUsed(scoreOut.out) = EXTENDED_WEIGHTS
    /\ scoreOut.components = AllScores(c)

RECURSIVE GCD(_, _)
GCD(a, b) == IF b = 0 THEN a ELSE GCD(b, a % b)

\* a = b on finite fitness values
FitEQ(a, b) ==
    LET g == GCD(a.den, b.den)
    IN  ~a.inf /\ ~b.inf /\ a.num * (b.den \div g) = b.num * (a.den \div g)

CeilDiv(n, d) == (n + d - 1) \div d

\* the ledger holds a winner, and a loser or a rug
BothSides == get_winners(records) # {} /\ get_losers(records) # {}

\* separation x 2.0 + precision x 3.0 - rug_penalty over the ledger recs,
\* with the precision taken over the top_n records of the ranking by
\* weighted score (a winner before a loser on equal scores); in 1e-4 units
FitnessFormula(weights, recs, top_n) ==
    LET done == {m \in DOMAIN recs : recs[m].outcome \in {"winner", "loser", "rug"}}
        W    == {m \in done : recs[m].outcome = "winner"}
        L    == done \ W
        s    == Eager([m \in DOMAIN recs |-> WeightedScore(weights, recs[m])])
        before(x, y) ==
            \/ s[x] > s[y]
            \/ s[x] = s[y] /\ x \in W /\ y \in L
            \/ s[x] = s[y] /\ (x \in W <=> y \in W) /\ x < y
        top  == {x \in done : Cardinality({y \in done : before(y, x)}) < top_n}
        nW   == Cardinality(W)
        nL   == Cardinality(L)
        nTop == Cardinality(top)
        rugs == Cardinality({m \in done : recs[m].outcome = "rug"
                                           /\ s[m] > 6 * WUnit})
        \* separation = sep / (nW * nL), precision = wins / nTop,
        \* rug_penalty = rugs / 2
        sep  == SumOver(s, W) * nL - SumOver(s, L) * nW
        wins == Cardinality(top \cap W)
    IN  Fit(2 * sep * 2 * nTop + 3 * wins * WUnit * 2 * nW * nL
               - rugs * WUnit * nW * nL * nTop,
            2 * nW * nL * nTop)

\* the best fitness of the run in progress was found by a generation
BestEvaluated == opt.pc = "loop" /\ ~opt.best_fitness.inf

\* C25: over a ledger with a winner and a loser or rug, the fitness of a
\* vector is separation x 2.0 + precision x 3.0 - rug_penalty, with the
\* separation the mean weighted score of the winners minus that of the
\* losers and rugs, the penalty 0.5 for each rug that scores above 6.0, and
\* no term counting a pending record.
C25_FitnessFormula ==
    (BestEvaluated /\ BothSides)
        => FitEQ(opt.best_fitness,
                 FitnessFormula(opt.best_weights, records, TopN(NumCompleted)))

\* a generation evaluated its candidates over a ledger with a winner, a
\* loser, a rug that scores above 6.0 and a pending record
C25_Witness ==
    /\ BestEvaluated
    /\ BothSides
    /\ \E m \in DOMAIN records : records[m].outcome = "pending"
    /\ \E m \in DOMAIN records :
          /\ records[m].outcome = "rug"
          /\ WeightedScore(opt.best_weights, records[m]) > 6 * WUnit

\* C26: when the ledger has no winner or no loser or rug, the fitness is
\* 0 - rug_penalty: the rugs that score above 6.0 still lower it.
C26_DegenerateFitness ==
    (BestEvaluated /\ ~BothSides)
        => LET rugs == Cardinality({m \in DOMAIN records :
                          /\ records[m].outcome = "rug"
                          /\ WeightedScore(opt.best_weights, records[m])
                                > 6 * WUnit})
           IN  FitEQ(opt.best_fitness, Fit(0 - rugs * WUnit, 2))

\* C27: the precision term is the fraction of winners among the top
\* ceil(N/3) records of the N completed ones.
C27_PrecisionTopCeil ==
    (BestEvaluated /\ BothSides)
        => FitEQ(opt.best_fitness,
                 FitnessFormula(opt.best_weights, records,
                                CeilDiv(NumCompleted, 3)))

\* C28: the step that ends a successful optimize() returns the best-ever
\* vector of the run, and new_fitness is the fitness of the returned
\* vector on the records of the run.
C28_ReturnsBestEver ==
    [][(opt.pc = "loop" /\ opt'.pc = "idle" /\ result'.called /\ result'.success)
        => /\ result'.weights = opt.best_weights
           /\ result'.new_fitness
                 = Round4(_evaluate_fitness(result'.weights, opt.completed))]_vars

\* the same for a run of one generation or more whose best vector the last
\* _normalize leaves as it is
ReturnsBestEverAfterGeneration ==
    [][(opt.pc = "loop" /\ opt'.pc = "idle" /\ result'.called /\ result'.success
          /\ opt.generations >= 1
          /\ _normalize(opt.best_weights) = opt.best_weights)
        => /\ result'.weights = opt.best_weights
           /\ result'.new_fitness
                 = Round4(_evaluate_fitness(result'.weights, opt.completed))]_vars

\* C29: the population of a run starts as the current vector followed by
\* population - 1 mutated copies of it, and at the start of every
\* generation it holds exactly population candidates (population >= 1).
C29_PopulationSize ==
    (opt.pc = "loop" /\ opt.population >= 1)
        => /\ Len(opt.pop) = opt.population
           /\ opt.gen = 0
                => /\ opt.pop[1] = opt.start_weights
                   /\ \A i \in 2..Len(opt.pop) :
                         \E mu \in Mutations :
                            opt.pop[i] = _mutate(opt.start_weights, mu)

\* a run of population 3 after the refill of a generation
C29_Witness ==
    /\ opt.pc = "loop"
    /\ opt.gen >= 1
    /\ opt.population = 3
    /\ Len(opt.pop) = 3

\* C30: in every generation the candidates carried unchanged are exactly
\* the top 20% of the population by fitness (population / 5, rounded down
\* or up), and every other member of the next generation is a mutation of
\* one of the top 40%, for every population >= 1.
C30_EliteTopFifth ==
    [][(opt.pc = "loop" /\ opt'.pc = "loop" /\ opt'.gen = opt.gen + 1
          /\ opt.population >= 1)
        => LET scored == Scored(opt.pop, opt.completed)
               top40  == 1..Min(Len(scored), CeilDiv(2 * opt.population, 5))
           IN  \E k \in {opt.population \div 5, CeilDiv(opt.population, 5)} :
                  /\ \A i \in 1..k : opt'.pop[i] = scored[i].weights
                  /\ \A i \in (k + 1)..Len(opt'.pop) :
                        \E j \in top40, mu \in Mutations :
                           opt'.pop[i] = _mutate(scored[j].weights, mu)]_vars

\* no task is inside a ledger call
AllIdle == \A t \in Tasks : tasks[t].pc = "idle"

\* the last write_text was of the ledger file, and it returned
LedgerWritten == lastWrite = [file |-> "history", ok |-> TRUE]

C24_ScoreNotBlocked ==
    (opt.pc = "loop" /\ calls < MaxCalls)
        => ENABLED (\E c \in ComponentMaps : bot_score(c))

\* the last call is a call of the function fn on a vector
Returned(fn) == result.called /\ "fn" \in DOMAIN result /\ result.fn = fn

\* C31: _mutate selects 1 to 3 distinct components, multiplies only the
\* selected weights by a factor in [0.5, 1.5], floors each selected weight
\* at 0.01 before the renormalisation, leaves the parent as it was, and
\* returns a renormalised vector over the parent's component names.
C31_Mutation ==
    Returned("_mutate")
        => LET w  == result.weights
               mu == result.draw
               \* the vector before renormalisation, in 1e-5 units
               scaled == [k \in DOMAIN w |->
                            IF k \notin DOMAIN mu THEN 10 * w[k]
                            ELSE IF w[k] * mu[k] < 1000 THEN 1000
                            ELSE w[k] * mu[k]]
               total == SumFn(scaled)
           IN  /\ Cardinality(DOMAIN mu) \in 1..3
               /\ DOMAIN mu \subseteq Components
               /\ \A k \in DOMAIN mu : mu[k] \in 5..15
               /\ result.parent = w
               /\ DOMAIN result.out = DOMAIN w
               /\ total > 0
               /\ \A k \in DOMAIN w :
                     result.out[k] = RoundDiv(scaled[k] * WUnit, total)

\* a mutation of three components, one of them under the floor after its
\* factor
C31_Witness ==
    /\ Returned("_mutate")
    /\ Cardinality(DOMAIN result.draw) = 3
    /\ \E k \in DOMAIN result.draw \cap DOMAIN result.weights :
          /\ result.weights[k] > 0
          /\ result.weights[k] * result.draw[k] < 1000

\* C32: _normalize of a vector whose weights sum to 0 returns the uniform
\* vector over the same n components, each weight 1/n, and divides by
\* nothing.
C32_NormalizeZeroSum ==
    (Returned("_normalize") /\ SumFn(result.weights) = 0)
        => /\ DOMAIN result.out = DOMAIN result.weights
           /\ \A k \in DOMAIN result.out :
                 result.out[k] * Cardinality(DOMAIN result.weights) = WUnit

\* _normalize of eight weights of 0
C32_Witness ==
    /\ Returned("_normalize")
    /\ result.weights = Zeros(Components)
    /\ result.out = [k \in Components |-> 1250]

\* C33: an optimize() run ends after exactly its number of generations,
\* for every number of generations and every population from 0 up: the
\* generation counter stays within 0..generations, a generation that is
\* due always has parents to refill the population from, each step of the
\* run is one generation more that leaves the population at its size, and
\* the run returns at the step after the last generation and at no other.
C33_Terminates ==
    /\ [](opt.pc = "loop"
            => /\ opt.gen \in 0..opt.generations
               /\ opt.gen < opt.generations => ChildDraws(opt) # {})
    /\ [][opt.pc = "loop"
            => \/ /\ opt'.pc = "loop"
                  /\ opt.gen < opt.generations
                  /\ opt'.gen = opt.gen + 1
                  /\ opt'.generations = opt.generations
                  /\ Len(opt'.pop) = Len(opt.pop)
               \/ /\ opt'.pc = "idle"
                  /\ opt.gen = opt.generations
                  /\ result'.called /\ result'.success]_opt

\* a run of population 0 that has taken its last generation
C33_Witness ==
    /\ opt.pc = "loop"
    /\ opt.generations >= 1
    /\ opt.gen = opt.generations
    /\ opt.population = 0

-----------------------------------------------------------------------------
(* score(): what is summed *)

\* the raw score score() takes for a component of the weight vector
RawOf(components, comp) ==
    IF comp \in DOMAIN components THEN components[comp] ELSE 5

\* the last call was score() and the active vector is still the one it read:
\* an optimize() run it was called within has not returned since
JustScored ==
    /\ lastOp.op = "score"
    /\ scoreOut.running => opt.pc = "loop"

\* C34 as stated: the breakdown has exactly the components of the active
\* vector, each weighted contribution is the raw score times the weight
\* (5.0 for a component the caller left out), and final_score is the sum of
\* the products clamped to [1, 10].  Products are in 1e-4 units, weighted
\* in 1e-3 units and final_score in 1e-2 units.
C34_ExactProducts ==
    JustScored
        => LET out == scoreOut.out
               c   == scoreOut.components
               product == [k \in DOMAIN current_weights |->
                              RawOf(c, k) * current_weights[k]]
           IN  /\ DOMAIN out.breakdown = DOMAIN current_weights
               /\ \A k \in DOMAIN current_weights :
                      out.breakdown[k].weighted * 10 = product[k]
               /\ out.final_score * 100 =
                      Max(1 * WUnit, Min(10 * WUnit, SumFn(product)))

\* C34: the breakdown of a score() call has exactly the components of the
\* active vector, whatever the caller's map holds; each entry's raw score is
\* the caller's or 5.0 when the caller left the component out, its weight
\* the active one, its weighted contribution the product rounded to three
\* decimals; final_score is the sum of the rounded contributions clamped to
\* [1, 10] and rounded to two decimals.
C34_RoundedProducts ==
    JustScored
        => LET out == scoreOut.out
               c   == scoreOut.components
               contribution == [k \in DOMAIN current_weights |->
                                   RoundDiv(RawOf(c, k) * current_weights[k], 10)]
           IN  /\ DOMAIN out.breakdown = DOMAIN current_weights
               /\ \A k \in DOMAIN current_weights :
                      /\ out.breakdown[k].raw = RawOf(c, k)
                      /\ out.breakdown[k].weight = current_weights[k]
                      /\ out.breakdown[k].weighted = contribution[k]
               /\ out.final_score = RoundDiv(Clamp(SumFn(contribution)), 10)

\* a score() call with a map that leaves components out and names one the
\* vector does not have, under a vector an optimize() run produced
C34_Witness ==
    /\ JustScored
    /\ DOMAIN scoreOut.components # Components
    /\ DOMAIN scoreOut.components \ Components # {}
    /\ Components \ DOMAIN scoreOut.components # {}
    /\ result.called /\ result.success
    /\ current_weights = result.weights
    /\ DOMAIN scoreOut.out.breakdown = Components

-----------------------------------------------------------------------------
(* The correlations report: power and order *)

\* the power the thresholds give a separation, in 1e-2 units
PowerOf(separation) ==
    IF separation > 200 THEN "strong"
    ELSE IF separation > 100 THEN "moderate"
    ELSE IF separation > 0 THEN "weak"
    ELSE "negative"

\* the last call returned a report with entries
Reported ==
    /\ lastOp.op = "get_component_correlations"
    /\ corrOut.called
    /\ "entries" \in DOMAIN corrOut.out

\* C35: in a report each component's predictive power is the one the
\* thresholds give the separation the report shows for it, and the
\* components are listed by descending separation.
C35_PowerFromReportedSeparation ==
    Reported
        => LET entries == corrOut.out.entries
               order   == corrOut.out.order
           IN  /\ \A k \in Components :
                      entries[k].predictive_power = PowerOf(entries[k].separation)
               /\ \A i, j \in DOMAIN order :
                      i < j => entries[order[i]].separation
                                  >= entries[order[j]].separation

\* the listing alone is by descending reported separation
ReportedInDescendingOrder ==
    Reported
        => \A i, j \in DOMAIN corrOut.out.order :
              i < j => corrOut.out.entries[corrOut.out.order[i]].separation
                          >= corrOut.out.entries[corrOut.out.order[j]].separation

-----------------------------------------------------------------------------
(* The active vector, whatever was loaded and optimized *)

\* C36: the active weight vector always maps exactly the 8 component names
\* to non-negative weights: none is missing, none is added, none is
\* negative.
C36_ActiveVectorShape ==
    /\ DOMAIN current_weights = Components
    /\ \A k \in DOMAIN current_weights : current_weights[k] >= 0

\* what does hold: no weight of the active vector is negative
ActiveVectorNonNegative ==
    \A k \in DOMAIN current_weights : current_weights[k] >= 0

-----------------------------------------------------------------------------
(* update_outcome: what it leaves alone *)

\* the fields update_outcome assigns
OutcomeFields == {"outcome", "peak_x", "final_x", "peak_mcap"}

\* C37: update_outcome on an id of the ledger changes nothing but that
\* record's outcome, multipliers and peak market cap: its component scores,
\* entry score, alerted flag, timestamp and tags stay, every other record
\* stays, and no record is added or removed.
C37_UpdateOutcomeFrame ==
    [][(Calls("update_outcome") /\ lastOp'.mint \in DOMAIN records)
        => /\ DOMAIN records' = DOMAIN records
           /\ \A m \in DOMAIN records :
                 IF m = lastOp'.mint
                 THEN /\ DOMAIN records'[m] = DOMAIN records[m]
                      /\ \A f \in DOMAIN records[m] \ OutcomeFields :
                            records'[m][f] = records[m][f]
                 ELSE records'[m] = records[m]]_vars

\* an update_outcome that completed an alerted record of a ledger with
\* other records
C37_Witness ==
    /\ lastOp.op = "update_outcome"
    /\ lastOp.mint \in DOMAIN records
    /\ records[lastOp.mint].outcome # "pending"
    /\ records[lastOp.mint].alert_sent
    /\ Cardinality(DOMAIN records) >= 2

-----------------------------------------------------------------------------
(* get_stats: the counts *)

\* the total a statistics object reports, under either of its two keys
StatsTotal(out) ==
    IF "total_signals" \in DOMAIN out THEN out.total_signals ELSE out.total

\* the last call was a get_stats that returned
StatsReturned == lastOp.op = "get_stats" /\ statsOut.called /\ ~statsOut.out.raised

\* C38: on every ledger, one with pending records only included, the total
\* get_stats reports is the number of records of the ledger, completed is
\* the number of records that are not pending, and winners plus losers
\* (rugs counted with the losers) is completed.
C38_StatsCounts ==
    StatsReturned
        => LET out == statsOut.out
           IN  /\ StatsTotal(out) = Cardinality(DOMAIN records)
               /\ "completed" \in DOMAIN out
                     => /\ out.completed = NumCompleted
                        /\ out.winners + out.losers = out.completed

\* what does hold: the counts are right whenever a record is completed
StatsCountsWhenCompleted ==
    (StatsReturned /\ NumCompleted > 0)
        => /\ statsOut.out.total_signals = Cardinality(DOMAIN records)
           /\ statsOut.out.completed = NumCompleted
           /\ statsOut.out.winners + statsOut.out.losers = statsOut.out.completed

-----------------------------------------------------------------------------
(* optimize() over completed records of one side only *)

\* the ledger has completed records, all winners or all losers and rugs
OneSided == NumCompleted > 0 /\ ~BothSides

\* the step is the return of a successful optimize() run
OptimizeReturns == opt.pc = "loop" /\ opt'.pc = "idle"

\* C39: over completed records of one side only that meet min_records,
\* every candidate of every generation has fitness 0, and the successful
\* optimize() leaves active the vector that was active before the call.
C39_OneSidedKeepsVector ==
    /\ []((BestEvaluated /\ OneSided) => FitEQ(opt.best_fitness, Fit(0, 1)))
    /\ [][(OptimizeReturns /\ OneSided)
            => /\ result'.success
               /\ current_weights' = current_weights]_vars

\* what does hold: every generation over such records finds fitness 0 and
\* keeps the active vector as its best
OneSidedBestIsActive ==
    (BestEvaluated /\ OneSided)
        => /\ FitEQ(opt.best_fitness, Fit(0, 1))
           /\ opt.best_weights = current_weights

====
